---- MODULE Spec2Model ----
(***************************************************************************)
(* Bridge inference of lib/bridge.py: contig bridges, loop unrolling       *)
(* bridges, the long read alignment selection, and the scoring helpers.    *)
(*                                                                         *)
(* Numbers.  Depths, agreements and qualities are Python floats; they are  *)
(* modelled as exact rationals <<n, d>> with d > 0 in lowest terms.  A     *)
(* Python str is a sequence of one-character strings.                      *)
(***************************************************************************)
EXTENDS Integers, Sequences, FiniteSets, TLC

VARIABLES
    graph,                  \* the assembly graph handed to a builder or constructor
    single_copy_segments,   \* the numbers of the single-copy segments, in list order
    pc,                     \* where the running function stands
    seg_i,                  \* index of the next segment of the outer loop (line 277)
    bridge_path_set,        \* set of path strings (line 275)
    found,                  \* history: every contig_bridge the loop has looked at
    bridge_path_list,       \* line 293
    conflicting_paths,      \* line 325
    bridges,                \* the list a builder returns
    loop_i,                 \* index of the next simple loop (line 376)
    joined,                 \* the local of create_loop_unrolling_bridges
    call,                   \* the arguments of a constructor or helper called directly
    ret,                    \* what that call returned
    read,                   \* the read whose alignments are selected
    min_scaled_score,       \* argument of create_long_read_bridges
    allowed_overlap,        \* line 419
    final_alignments,       \* what get_single_copy_alignments returned
    read_names,             \* the reads of read_dict in the order of read_names
    read_i,                 \* index of the next read (line 420)
    spanning_read_seqs,     \* line 410
    overlapping_read_seqs,  \* line 416
    available_alignments    \* history: the working list each read ended with

contigVars == <<single_copy_segments, seg_i, bridge_path_set, found, bridge_path_list,
                conflicting_paths>>
loopVars == <<loop_i, joined>>
callVars == <<call, ret>>
alignVars == <<read, min_scaled_score, allowed_overlap, final_alignments>>
longReadVars == <<read_names, read_i, spanning_read_seqs, overlapping_read_seqs,
                  available_alignments>>

vars == <<graph, pc, bridges, contigVars, loopVars, callVars, alignVars, longReadVars>>

\* the value of a variable that a specification does not use
ContigUnused ==
    /\ single_copy_segments = <<>> /\ seg_i = 0 /\ bridge_path_set = {} /\ found = {}
    /\ bridge_path_list = <<>> /\ conflicting_paths = {}
LoopUnused == loop_i = 0 /\ joined = "unbound"
LongReadUnused ==
    /\ read_names = <<>> /\ read_i = 0 /\ spanning_read_seqs = <<>>
    /\ overlapping_read_seqs = <<>> /\ available_alignments = <<>>
CallUnused == call = <<>> /\ ret = <<>>
AlignUnused ==
    /\ read = <<>> /\ min_scaled_score = 0 /\ allowed_overlap = 0
    /\ final_alignments = <<>>

----------------------------------------------------------------------------
(* Bounds of the model. *)

\* segment numbers are 1..MaxSeg
MaxSeg == 3
\* the stored contig paths hold at most this many elements together
MaxPathElems == 3
\* a constructor is called with a path of at most this many inner elements
MaxInternal == 2
\* segment depths are 1..MaxDepth
MaxDepth == 3
\* overlap-excluded segment lengths are 1..MaxLen
MaxLen == 2
\* the helpers are called with numbers n / d, n in -MaxNum..MaxNum, d in 1..MaxDen
MaxNum == 6
MaxDen == 2
\* a read has at most MaxAlignments alignments, to references 1..MaxRef of
\* length RefLength, with scaled scores 1..MaxScore and at most MaxGap
\* unaligned reference bases at either end
MaxAlignments == 3
MaxRef == 2
RefLength == 8
MaxScore == 2
MaxGap == 1
\* graph.overlap is 0..MaxOverlap
MaxOverlap == 5
\* find_all_simple_loops returns at most this many loops
MaxLoops == 2
\* the stored paths of a graph with loops hold at most this many elements together
MaxLoopPathElems == 2
\* reads handed to create_long_read_bridges
MaxReads == 2
\* the last read position at which an alignment starts
MaxReadPos == 2

----------------------------------------------------------------------------
(* Integers, sequences. *)

Abs(x) == IF x < 0 THEN -x ELSE x

Min(S) == CHOOSE x \in S : \A y \in S : x <= y

Range(s) == {s[i] : i \in 1..Len(s)}

SignedNums == {x \in -MaxSeg..MaxSeg : x # 0}

\* [-x for x in reversed(path)]
Flipped(path) == [i \in 1..Len(path) |-> -path[Len(path) + 1 - i]]

RECURSIVE Concat(_)
Concat(seqs) == IF seqs = <<>> THEN <<>> ELSE Head(seqs) \o Concat(Tail(seqs))

\* Python's list < list on lists of ints
RECURSIVE ListLess(_, _)
ListLess(a, b) ==
    IF a = <<>> THEN b # <<>>
    ELSE IF b = <<>> THEN FALSE
    ELSE IF Head(a) # Head(b) THEN Head(a) < Head(b)
    ELSE ListLess(Tail(a), Tail(b))

\* sorted(list(S)) for a set S of lists of ints
RECURSIVE Sorted(_)
Sorted(S) ==
    IF S = {} THEN <<>>
    ELSE LET m == CHOOSE x \in S : \A y \in S : y = x \/ ListLess(x, y)
         IN  <<m>> \o Sorted(S \ {m})

----------------------------------------------------------------------------
(* str(x), ','.join(...), x.split(','), int(y) *)

DigitChar(d) ==
    CASE d = 0 -> "0" [] d = 1 -> "1" [] d = 2 -> "2" [] d = 3 -> "3" [] d = 4 -> "4"
      [] d = 5 -> "5" [] d = 6 -> "6" [] d = 7 -> "7" [] d = 8 -> "8" [] d = 9 -> "9"

DigitValue(c) == CHOOSE d \in 0..9 : DigitChar(d) = c

RECURSIVE NatStr(_)
NatStr(n) == IF n < 10 THEN <<DigitChar(n)>>
             ELSE Append(NatStr(n \div 10), DigitChar(n % 10))

str(x) == IF x < 0 THEN <<"-">> \o NatStr(-x) ELSE NatStr(x)

RECURSIVE NatOfStr(_, _)
NatOfStr(s, acc) == IF s = <<>> THEN acc
                    ELSE NatOfStr(Tail(s), 10 * acc + DigitValue(Head(s)))

int(s) == IF Head(s) = "-" THEN -NatOfStr(Tail(s), 0) ELSE NatOfStr(s, 0)

RECURSIVE Join(_, _)
Join(sep, strs) ==
    IF strs = <<>> THEN <<>>
    ELSE IF Len(strs) = 1 THEN strs[1]
    ELSE strs[1] \o sep \o Join(sep, Tail(strs))

RECURSIVE Split(_, _, _)
Split(s, sep, cur) ==
    IF s = <<>> THEN <<cur>>
    ELSE IF Head(s) = sep THEN <<cur>> \o Split(Tail(s), sep, <<>>)
    ELSE Split(Tail(s), sep, Append(cur, Head(s)))

\* ','.join([str(x) for x in path])
PathStr(path) == Join(<<",">>, [i \in 1..Len(path) |-> str(path[i])])

\* [int(y) for y in x.split(',')]
PathOfStr(x) == LET parts == Split(x, ",", <<>>)
                IN  [i \in 1..Len(parts) |-> int(parts[i])]

----------------------------------------------------------------------------
(* Rationals <<n, d>>, d > 0, in lowest terms. *)

RECURSIVE Gcd(_, _)
Gcd(a, b) == IF b = 0 THEN a ELSE Gcd(b, a % b)

Rat(n, d) ==
    LET s == IF d < 0 THEN -1 ELSE 1
        g == Gcd(Abs(n), Abs(d))
    IN  <<(s * n) \div g, (s * d) \div g>>

RInt(n) == <<n, 1>>
RAdd(a, b) == Rat(a[1] * b[2] + b[1] * a[2], a[2] * b[2])
RSub(a, b) == Rat(a[1] * b[2] - b[1] * a[2], a[2] * b[2])
RMul(a, b) == Rat(a[1] * b[1], a[2] * b[2])
\* b is not zero
RDiv(a, b) == Rat(a[1] * b[2], a[2] * b[1])
RNeg(a) == <<-a[1], a[2]>>
RLt(a, b) == a[1] * b[2] < b[1] * a[2]
RLe(a, b) == a[1] * b[2] <= b[1] * a[2]
RIsZero(a) == a[1] = 0
RMin(a, b) == IF RLe(a, b) THEN a ELSE b
RMax(a, b) == IF RLe(a, b) THEN b ELSE a
\* floor of a rational (\div rounds down)
RFloor(a) == a[1] \div a[2]

----------------------------------------------------------------------------
(* Scoring helpers, lines 521-566. *)

\* what a call that raises ZeroDivisionError yields
ZeroDivisionError == "ZeroDivisionError"

get_num_agreement(num_1, num_2) ==
    IF RIsZero(num_1) /\ RIsZero(num_2) THEN RInt(1)
    ELSE LET both_neg == RLt(num_1, RInt(0)) /\ RLt(num_2, RInt(0))
             n_1 == IF both_neg THEN RNeg(num_1) ELSE num_1
             n_2 == IF both_neg THEN RNeg(num_2) ELSE num_2
         IN  IF RLt(RMul(n_1, n_2), RInt(0)) THEN RInt(0)
             ELSE IF RIsZero(RMax(n_1, n_2)) THEN ZeroDivisionError
             ELSE RDiv(RMin(n_1, n_2), RMax(n_1, n_2))

\* the callers give weights with a positive sum
weighted_average(num_1, num_2, weight_1, weight_2) ==
    LET weight_sum == RAdd(weight_1, weight_2)
    IN  RAdd(RMul(num_1, RDiv(weight_1, weight_sum)),
             RMul(num_2, RDiv(weight_2, weight_sum)))

\* a segment is [depth, length_no_overlap]: its depth and the value of
\* get_length_no_overlap(graph.overlap)
get_mean_depth(seg_1, seg_2) ==
    weighted_average(seg_1.depth, seg_2.depth,
                     RInt(seg_1.length_no_overlap), RInt(seg_2.length_no_overlap))

\* g.connected[s] is what graph.get_connected_segments(s) returns
path_is_self_contained(path, start, end, g) ==
    LET all_numbers_in_path == {Abs(start), Abs(end)} \cup {Abs(x) : x \in Range(path)}
    IN  \A i \in 1..Len(path) : g.connected[path[i]] \subseteq all_numbers_in_path

----------------------------------------------------------------------------
(* SpadesContigBridge.__init__, lines 21-65. *)

\* number of elements of s equal to x: s.count(x)
Count(s, x) == Cardinality({i \in 1..Len(s) : s[i] = x})

\* list(set(...)): the distinct numbers; the order of a Python set is not
\* fixed, and the product below does not depend on it
RECURSIVE ListOfSet(_)
ListOfSet(S) == IF S = {} THEN <<>>
                ELSE LET x == Min(S) IN <<x>> \o ListOfSet(S \ {x})

\* line 63: the count is taken in graph_path_pos_nums, the list of the
\* distinct numbers
ExpectedDepth(graph_path_pos_nums, path_segment, depth) ==
    RMul(RInt(Count(graph_path_pos_nums, path_segment)), depth)

\* lines 61-65: the loop over graph_path_pos_nums, todo the part not yet done
RECURSIVE ScaleByPath(_, _, _, _, _)
ScaleByPath(quality, todo, graph_path_pos_nums, depth, g) ==
    IF todo = <<>> THEN quality
    ELSE LET path_segment == Head(todo)
             actual_depth == g.segments[path_segment].depth
             expected_depth == ExpectedDepth(graph_path_pos_nums, path_segment, depth)
             agreement == get_num_agreement(actual_depth, expected_depth)
         IN  ScaleByPath(RMul(quality, agreement), Tail(todo), graph_path_pos_nums,
                         depth, g)

\* line 37
ContigBaseQuality == 20

\* The bridge sequence (graph.get_path_sequence) is left out: no statement
\* here reads it.  A contig bridge's quality is a rational.
SpadesContigBridge(g, spades_contig_path) ==
    LET start_segment == Head(spades_contig_path)
        end_segment == spades_contig_path[Len(spades_contig_path)]
        graph_path == SubSeq(spades_contig_path, 2, Len(spades_contig_path) - 1)
        start_seg == g.segments[Abs(start_segment)]
        end_seg == g.segments[Abs(end_segment)]
        depth_agreement == get_num_agreement(start_seg.depth, end_seg.depth)
        quality_0 == RMul(RInt(ContigBaseQuality), RMul(depth_agreement, depth_agreement))
        depth == get_mean_depth(start_seg, end_seg)
        graph_path_pos_nums == ListOfSet({Abs(x) : x \in Range(graph_path)})
    IN  [class |-> "SpadesContigBridge",
         start_segment |-> start_segment,
         end_segment |-> end_segment,
         graph_path |-> graph_path,
         depth |-> depth,
         quality |-> IF path_is_self_contained(graph_path, start_segment, end_segment, g)
                     THEN ScaleByPath(quality_0, graph_path_pos_nums,
                                      graph_path_pos_nums, depth, g)
                     ELSE quality_0]

----------------------------------------------------------------------------
(* find_contig_bridges, lines 345-362. *)

\* faulty variant: the negated number is not looked up
InSingleCopy_NotNegated(x, single_copy_numbers) == x \in Range(single_copy_numbers)

InSingleCopy(x, single_copy_numbers) ==
    x \in Range(single_copy_numbers) \/ -x \in Range(single_copy_numbers)

\* lines 353-359: the bridge path from index, <<>> when the path ends first
BridgePathFrom(index, path, single_copy_numbers) ==
    LET stops == {i \in (index + 1)..Len(path) : InSingleCopy(path[i], single_copy_numbers)}
    IN  IF stops = {} THEN <<>> ELSE SubSeq(path, index, Min(stops))

RECURSIVE BridgePathsFrom(_, _, _, _)
BridgePathsFrom(index, segment_num, path, single_copy_numbers) ==
    IF index > Len(path) THEN <<>>
    ELSE LET bridge_path == IF Abs(path[index]) = segment_num
                            THEN BridgePathFrom(index, path, single_copy_numbers)
                            ELSE <<>>
         IN  (IF bridge_path # <<>> THEN <<bridge_path>> ELSE <<>>)
             \o BridgePathsFrom(index + 1, segment_num, path, single_copy_numbers)

find_contig_bridges(segment_num, path, single_copy_numbers) ==
    BridgePathsFrom(1, segment_num, path, single_copy_numbers)

----------------------------------------------------------------------------
(* create_spades_contig_bridges, lines 265-343. *)

\* lines 286-291: which string is stored for a bridge that is not yet in the set
StoredStr(contig_bridge) ==
    IF contig_bridge[1] < 0 /\ contig_bridge[Len(contig_bridge)] < 0
    THEN PathStr(Flipped(contig_bridge))
    ELSE PathStr(contig_bridge)

\* faulty variant: the reverse complement is not looked up before a string is added
AddBridge_NoFlipCheck(set, contig_bridge) ==
    IF PathStr(contig_bridge) \notin set
    THEN set \cup {StoredStr(contig_bridge)}
    ELSE set

\* lines 282-291 for one contig_bridge
AddBridge(set, contig_bridge) ==
    IF PathStr(contig_bridge) \notin set /\ PathStr(Flipped(contig_bridge)) \notin set
    THEN set \cup {StoredStr(contig_bridge)}
    ELSE set

RECURSIVE AddBridges(_, _)
AddBridges(set, contig_bridges) ==
    IF contig_bridges = <<>> THEN set
    ELSE AddBridges(AddBridge(set, Head(contig_bridges)), Tail(contig_bridges))

\* lines 280-281
ContigBridgesOf(segment_num, path, single_copy_numbers) ==
    find_contig_bridges(segment_num, path, single_copy_numbers)
    \o find_contig_bridges(segment_num, Flipped(path), single_copy_numbers)

\* lines 278-291: the inner loop over the stored paths, from path number j
RECURSIVE AddPaths(_, _, _, _, _)
AddPaths(set, j, segment_num, paths, single_copy_numbers) ==
    IF j > Len(paths) THEN set
    ELSE AddPaths(AddBridges(set, ContigBridgesOf(segment_num, paths[j], single_copy_numbers)),
                  j + 1, segment_num, paths, single_copy_numbers)

\* lines 297-313: the paths appended to bridge_paths_by_start[key], and to
\* bridge_paths_by_end[key]; a path is appended once for every key it has
ByStart(list, key) ==
    Concat([i \in 1..Len(list) |->
              (IF list[i][1] = key THEN <<list[i]>> ELSE <<>>)
              \o (IF -list[i][Len(list[i])] = key THEN <<list[i]>> ELSE <<>>)])

ByEnd(list, key) ==
    Concat([i \in 1..Len(list) |->
              (IF list[i][Len(list[i])] = key THEN <<list[i]>> ELSE <<>>)
              \o (IF -list[i][1] = key THEN <<list[i]>> ELSE <<>>)])

\* faulty variant: only a bucket of more than two entries counts as a conflict
ConflictingPaths_MoreThanTwo(list) ==
    LET keys == {list[i][1] : i \in 1..Len(list)}
                \cup {list[i][Len(list[i])] : i \in 1..Len(list)}
                \cup {-list[i][1] : i \in 1..Len(list)}
                \cup {-list[i][Len(list[i])] : i \in 1..Len(list)}
    IN  UNION {IF Len(ByStart(list, k)) > 2 THEN Range(ByStart(list, k)) ELSE {} : k \in keys}
        \cup UNION {IF Len(ByEnd(list, k)) > 2 THEN Range(ByEnd(list, k)) ELSE {} : k \in keys}

\* faulty variant: a bucket with one path already counts as a conflict
ConflictingPaths_AtLeastOne(list) ==
    LET keys == {list[i][1] : i \in 1..Len(list)}
                \cup {list[i][Len(list[i])] : i \in 1..Len(list)}
                \cup {-list[i][1] : i \in 1..Len(list)}
                \cup {-list[i][Len(list[i])] : i \in 1..Len(list)}
    IN  UNION {IF Len(ByStart(list, k)) >= 1 THEN Range(ByStart(list, k)) ELSE {} : k \in keys}
        \cup UNION {IF Len(ByEnd(list, k)) >= 1 THEN Range(ByEnd(list, k)) ELSE {} : k \in keys}

\* lines 314-325, as a set: membership is all that line 334 reads
ConflictingPaths(list) ==
    LET keys == {list[i][1] : i \in 1..Len(list)}
                \cup {list[i][Len(list[i])] : i \in 1..Len(list)}
                \cup {-list[i][1] : i \in 1..Len(list)}
                \cup {-list[i][Len(list[i])] : i \in 1..Len(list)}
    IN  UNION {IF Len(ByStart(list, k)) > 1 THEN Range(ByStart(list, k)) ELSE {} : k \in keys}
        \cup UNION {IF Len(ByEnd(list, k)) > 1 THEN Range(ByEnd(list, k)) ELSE {} : k \in keys}

\* line 334
FinalBridgePaths(list, conflicting) ==
    SelectSeq(list, LAMBDA x : x \notin conflicting)

\* The inputs: the stored paths of the graph (graph.paths.itervalues(), in
\* the order the dict yields them) and the list of single-copy segments.
RECURSIVE PathLists(_, _)
PathLists(budget, nums) ==
    {<<>>} \cup UNION {{<<p>> \o rest : p \in [1..k -> nums], rest \in PathLists(budget - k, nums)}
                       : k \in 1..budget}

SingleCopyLists ==
    {s \in UNION {[1..n -> 1..MaxSeg] : n \in 0..MaxSeg} :
        \A i, j \in 1..Len(s) : i # j => s[i] # s[j]}

\* The properties stated of the contig builder do not read depths: every segment of its
\* graph has depth 1 and length 1 and no connection.
UnitSegments == [n \in 1..MaxSeg |-> [depth |-> RInt(1), length_no_overlap |-> 1]]
NoConnections == [x \in SignedNums |-> {}]

ContigInit ==
    /\ \E paths \in PathLists(MaxPathElems, SignedNums) :
          graph = [paths |-> paths, segments |-> UnitSegments, connected |-> NoConnections]
    /\ single_copy_segments \in SingleCopyLists
    /\ pc = "collect"
    /\ seg_i = 1
    /\ bridge_path_set = {}
    /\ found = {}
    /\ bridge_path_list = <<>>
    /\ conflicting_paths = {}
    /\ bridges = <<>>
    /\ LoopUnused /\ CallUnused /\ AlignUnused /\ LongReadUnused

\* one turn of the loop of line 277
CollectSegment ==
    /\ pc = "collect"
    /\ seg_i <= Len(single_copy_segments)
    /\ LET segment_num == single_copy_segments[seg_i]
       IN  /\ bridge_path_set' = AddPaths(bridge_path_set, 1, segment_num, graph.paths,
                                          single_copy_segments)
           /\ found' = found \cup UNION {Range(ContigBridgesOf(segment_num, graph.paths[j],
                                                                single_copy_segments))
                                         : j \in 1..Len(graph.paths)}
    /\ seg_i' = seg_i + 1
    /\ UNCHANGED <<longReadVars, graph, single_copy_segments, pc, bridge_path_list, conflicting_paths,
                   bridges, loopVars, callVars, alignVars>>

\* lines 293-343
FilterAndBuild ==
    /\ pc = "collect"
    /\ seg_i > Len(single_copy_segments)
    /\ LET list == Sorted({PathOfStr(x) : x \in bridge_path_set})
           conflicting == ConflictingPaths(list)
           final_bridge_paths == FinalBridgePaths(list, conflicting)
       IN  /\ bridge_path_list' = list
           /\ conflicting_paths' = conflicting
           /\ bridges' = [i \in 1..Len(final_bridge_paths) |->
                             SpadesContigBridge(graph, final_bridge_paths[i])]
    /\ pc' = "done"
    /\ UNCHANGED <<longReadVars, graph, single_copy_segments, seg_i, bridge_path_set, found,
                   loopVars, callVars, alignVars>>

ContigNext == CollectSegment \/ FilterAndBuild

SpecContig == ContigInit /\ [][ContigNext]_vars

----------------------------------------------------------------------------
(* Statements about create_spades_contig_bridges. *)

Last(path) == path[Len(path)]

\* the path a contig bridge was built from
BridgeAsPath(b) == <<b.start_segment>> \o b.graph_path \o <<b.end_segment>>

\* the keys a path is filed under in bridge_paths_by_start and bridge_paths_by_end
StartKeys(p) == {p[1], -Last(p)}
EndKeys(p) == {Last(p), -p[1]}

SharesKey(p, q) ==
    \/ StartKeys(p) \cap StartKeys(q) # {}
    \/ EndKeys(p) \cap EndKeys(q) # {}

BridgesBuiltFrom(p) == {i \in 1..Len(bridges) : BridgeAsPath(bridges[i]) = p}

\* C1: when the builder has returned, a candidate of the deduplicated list is
\* left out of the output exactly when another, distinct candidate shares one
\* of its four keys, and every other candidate yields exactly one bridge.
C1_ExcludedIffSharesKey ==
    pc = "done" =>
        \A i \in 1..Len(bridge_path_list) :
            LET p == bridge_path_list[i]
                shares == \E j \in 1..Len(bridge_path_list) :
                             /\ bridge_path_list[j] # p
                             /\ SharesKey(p, bridge_path_list[j])
            IN  /\ shares => BridgesBuiltFrom(p) = {}
                /\ ~shares => Cardinality(BridgesBuiltFrom(p)) = 1

StoredPaths == {PathOfStr(x) : x \in bridge_path_set}

\* C2: at every point of the collecting loop, the set of stored path strings
\* holds no path together with its (different) reverse complement, holds
\* exactly one of the two for every bridge path looked at so far, and holds no
\* path whose first and last elements are both negative.
C2_DedupCanonical ==
    /\ \A p \in StoredPaths :
          /\ ~(p[1] < 0 /\ Last(p) < 0)
          /\ Flipped(p) # p => Flipped(p) \notin StoredPaths
    /\ \A c \in found :
          Cardinality({c, Flipped(c)} \cap StoredPaths) = 1
    /\ \A p \in StoredPaths : p \in found \/ Flipped(p) \in found

\* a path of the shape of [3,-5,7] and its reverse complement have both been
\* looked at, and the one stored is the one with positive ends
C2_Witness ==
    \E c \in found :
        /\ Len(c) = 3 /\ c[1] > 0 /\ c[2] < 0 /\ c[3] > 0
        /\ Flipped(c) \in found
        /\ PathStr(c) \in bridge_path_set
        /\ PathStr(Flipped(c)) \notin bridge_path_set

\* the stored-path graph C9 is about: one stored path [a, x1..xn, b], a and b
\* positive, different and single-copy, no x single-copy
OnePathBetweenAnchors ==
    /\ Len(graph.paths) = 1
    /\ LET P == graph.paths[1]
       IN  /\ Len(P) >= 2
           /\ P[1] > 0 /\ Last(P) > 0 /\ P[1] # Last(P)
           /\ P[1] \in Range(single_copy_segments)
           /\ Last(P) \in Range(single_copy_segments)
           /\ \A k \in 2..(Len(P) - 1) : Abs(P[k]) \notin Range(single_copy_segments)

\* C9: for one stored path [a, x1..xn, b] between two single-copy anchors the
\* builder returns exactly one bridge, from a to b, with graph path [x1..xn],
\* whatever the order of the single-copy list.
C9_EndToEnd ==
    (pc = "done" /\ OnePathBetweenAnchors) =>
        LET P == graph.paths[1]
        IN  /\ Len(bridges) = 1
            /\ bridges[1].start_segment = P[1]
            /\ bridges[1].end_segment = Last(P)
            /\ bridges[1].graph_path = SubSeq(P, 2, Len(P) - 1)

\* the graph of the example: single-copy segments 1 and 2, listed as 2 then 1,
\* and the stored path [1, x, 2]
C9_Witness ==
    /\ pc = "done"
    /\ OnePathBetweenAnchors
    /\ single_copy_segments = <<2, 1>>
    /\ Len(graph.paths[1]) = 3
    /\ Len(bridges) = 1
    /\ bridges[1].start_segment = 1
    /\ bridges[1].end_segment = 2
    /\ Len(bridges[1].graph_path) = 1

----------------------------------------------------------------------------
(* SpadesContigBridge called on its own, over graphs whose depths differ. *)

AllConnected == [x \in SignedNums |-> 1..MaxSeg]

\* segment n has overlap-excluded length n, and any depth
DepthGraphs ==
    {[paths |-> <<>>,
      segments |-> [n \in 1..MaxSeg |-> [depth |-> RInt(d[n]), length_no_overlap |-> n]],
      connected |-> c]
     : d \in [1..MaxSeg -> 1..MaxDepth], c \in {NoConnections, AllConnected}}

\* start segment, inner path, end segment
BridgePaths ==
    {<<s>> \o m \o <<e>> : s \in SignedNums, e \in SignedNums,
                           m \in UNION {[1..n -> SignedNums] : n \in 0..MaxInternal}}

ContigBridgeInit ==
    /\ graph \in DepthGraphs
    /\ \E p \in BridgePaths : call = [fn |-> "SpadesContigBridge", spades_contig_path |-> p]
    /\ ret = <<>>
    /\ pc = "call"
    /\ bridges = <<>>
    /\ ContigUnused /\ LoopUnused /\ AlignUnused /\ LongReadUnused

ConstructContigBridge ==
    /\ pc = "call"
    /\ call.fn = "SpadesContigBridge"
    /\ ret' = SpadesContigBridge(graph, call.spades_contig_path)
    /\ pc' = "done"
    /\ UNCHANGED <<longReadVars, graph, bridges, call, contigVars, loopVars, alignVars>>

SpecContigBridge == ContigBridgeInit /\ [][ConstructContigBridge]_vars

\* how often segment number n, in either orientation, occurs in path
Occurrences(path, n) == Cardinality({i \in 1..Len(path) : Abs(path[i]) = n})

\* the product of numeric_agreement(actual depth, k * bridge depth) over the
\* segment numbers in nums, k the number of occurrences in path
RECURSIVE AgreementProduct(_, _, _, _)
AgreementProduct(nums, path, depth, g) ==
    IF nums = {} THEN RInt(1)
    ELSE LET n == Min(nums)
         IN  RMul(get_num_agreement(g.segments[n].depth,
                                    RMul(RInt(Occurrences(path, n)), depth)),
                  AgreementProduct(nums \ {n}, path, depth, g))

\* C3: a bridge whose inner path is self-contained has quality
\* 20 * agreement(start, end)^2 times, for every distinct segment number of
\* the inner path, numeric_agreement(actual depth, k * bridge depth), k the
\* number of occurrences of that segment in the inner path.
C3_ScaledByOccurrences ==
    (/\ pc = "done"
     /\ path_is_self_contained(ret.graph_path, ret.start_segment, ret.end_segment, graph))
    => LET a == get_num_agreement(graph.segments[Abs(ret.start_segment)].depth,
                                  graph.segments[Abs(ret.end_segment)].depth)
       IN  ret.quality =
               RMul(RMul(RInt(ContigBaseQuality), RMul(a, a)),
                    AgreementProduct({Abs(x) : x \in Range(ret.graph_path)},
                                     ret.graph_path, ret.depth, graph))

----------------------------------------------------------------------------
(* LoopUnrollingBridge.__init__, lines 184-246. *)

\* line 205
LoopBaseQuality == 10

\* Python 2's round() of a number that is at least 1: halves go up
Round(x) == RFloor(RAdd(x, Rat(1, 2)))

\* x % 1
Mod1(x) == RSub(x, RInt(RFloor(x)))

\* faulty variant: int() without round()
LoopCount_Truncates(mean_loop_count) ==
    IF RLt(mean_loop_count, RInt(1)) THEN 1 ELSE RFloor(mean_loop_count)

\* lines 229-233
LoopCount(mean_loop_count) ==
    IF RLt(mean_loop_count, RInt(1)) THEN 1 ELSE Round(mean_loop_count)

\* lines 229-236
ClosenessToWholeNum(mean_loop_count) ==
    IF RLt(mean_loop_count, RInt(1)) THEN mean_loop_count
    ELSE LET fractional_part == Mod1(mean_loop_count)
             distance_from_whole_num == RMin(fractional_part,
                                             RSub(RInt(1), fractional_part))
         IN  RSub(RInt(1), RMul(RInt(2), distance_from_whole_num))

\* lines 243-245
UnrolledPath(middle, repeat, loop_count) ==
    [i \in 1..(2 * loop_count + 1) |-> IF i % 2 = 1 THEN repeat ELSE middle]

\* The quality of a loop unrolling bridge is coefficient * sqrt(penalty_squared):
\* the loop count penalty (1 / loop_count) ** 0.5 is kept as its square.  The
\* locals mean_loop_count, loop_count and closeness_to_whole_num are kept in
\* the record for the statements about them.
LoopUnrollingBridge(g, start, end, middle, repeat) ==
    LET start_seg == g.segments[Abs(start)]
        end_seg == g.segments[Abs(end)]
        middle_seg == g.segments[Abs(middle)]
        repeat_seg == g.segments[Abs(repeat)]
        depth_agreement == get_num_agreement(start_seg.depth, end_seg.depth)
        quality_0 == RMul(RInt(LoopBaseQuality), RMul(depth_agreement, depth_agreement))
        depth == get_mean_depth(start_seg, end_seg)
        loop_count_by_middle == RDiv(middle_seg.depth, depth)
        loop_count_by_repeat == RDiv(RSub(repeat_seg.depth, depth), depth)
        mean_loop_count == weighted_average(loop_count_by_middle, loop_count_by_repeat,
                                            RInt(middle_seg.length_no_overlap),
                                            RInt(repeat_seg.length_no_overlap))
        loop_count == LoopCount(mean_loop_count)
        closeness_to_whole_num == ClosenessToWholeNum(mean_loop_count)
    IN  [class |-> "LoopUnrollingBridge",
         start_segment |-> start,
         end_segment |-> end,
         graph_path |-> UnrolledPath(middle, repeat, loop_count),
         depth |-> depth,
         quality |-> [coefficient |-> RMul(quality_0, closeness_to_whole_num),
                      penalty_squared |-> Rat(1, loop_count)],
         mean_loop_count |-> mean_loop_count,
         loop_count |-> loop_count,
         closeness_to_whole_num |-> closeness_to_whole_num]

----------------------------------------------------------------------------
(* LoopUnrollingBridge called on its own.  A simple loop has four segments  *)
(* (line 376): here start is segment 1, end 2, middle 3 and repeat 4, each  *)
(* in either orientation.                                                   *)

LoopSegCount == 4

LoopSignedNums == {x \in -LoopSegCount..LoopSegCount : x # 0}

LoopTuples == {<<s, 2 * e, 3 * m, 4 * r>> : s \in {-1, 1}, e \in {-1, 1},
                                             m \in {-1, 1}, r \in {-1, 1}}

LoopDepthGraphs ==
    {[paths |-> <<>>,
      segments |-> [n \in 1..LoopSegCount |->
                       [depth |-> RInt(d[n]), length_no_overlap |-> l[n]]]]
     : d \in [1..LoopSegCount -> 1..MaxDepth], l \in [1..LoopSegCount -> 1..MaxLen]}

LoopBridgeInit ==
    /\ graph \in LoopDepthGraphs
    /\ \E t \in LoopTuples :
          call = [fn |-> "LoopUnrollingBridge", start |-> t[1], end |-> t[2],
                  middle |-> t[3], repeat |-> t[4]]
    /\ ret = <<>>
    /\ pc = "call"
    /\ bridges = <<>>
    /\ ContigUnused /\ LoopUnused /\ AlignUnused /\ LongReadUnused

ConstructLoopBridge ==
    /\ pc = "call"
    /\ call.fn = "LoopUnrollingBridge"
    /\ ret' = LoopUnrollingBridge(graph, call.start, call.end, call.middle, call.repeat)
    /\ pc' = "done"
    /\ UNCHANGED <<longReadVars, graph, bridges, call, contigVars, loopVars, alignVars>>

SpecLoopBridge == LoopBridgeInit /\ [][ConstructLoopBridge]_vars

----------------------------------------------------------------------------
(* create_loop_unrolling_bridges, lines 364-392. *)

\* lines 380-383 for one stored path
PathJoins(path, start, end, middle) ==
    LET flipped_path == Flipped(path)
    IN  \/ (start \in Range(path) /\ middle \in Range(path))
        \/ (end \in Range(path) /\ middle \in Range(path))
        \/ (start \in Range(flipped_path) /\ middle \in Range(flipped_path))
        \/ (end \in Range(flipped_path) /\ middle \in Range(flipped_path))

\* lines 377-385: the value of joined after the loop over the stored paths;
\* with no stored path the loop body never runs and joined is left as it was.
\* joined is "True", "False", or "unbound" before its first assignment.
JoinedAfter(before, paths, start, end, middle) ==
    IF paths = <<>> THEN before
    ELSE IF \E j \in 1..Len(paths) : PathJoins(paths[j], start, end, middle)
    THEN "True" ELSE "False"

\* the segments of the example of a loop counted once: repeat has twice the depth
LoopSegments ==
    [n \in 1..LoopSegCount |->
        [depth |-> IF n = LoopSegCount THEN RInt(2) ELSE RInt(1), length_no_overlap |-> 1]]

LoopLists == UNION {[1..n -> LoopTuples] : n \in 0..MaxLoops}

LoopInit ==
    /\ \E paths \in PathLists(MaxLoopPathElems, LoopSignedNums), simple_loops \in LoopLists :
          graph = [paths |-> paths, segments |-> LoopSegments, simple_loops |-> simple_loops]
    /\ bridges = <<>>
    /\ loop_i = 1
    /\ joined = "unbound"
    /\ pc = "loops"
    /\ ContigUnused /\ CallUnused /\ AlignUnused /\ LongReadUnused

\* one turn of the loop of line 376
UnrollLoop ==
    /\ pc = "loops"
    /\ loop_i <= Len(graph.simple_loops)
    /\ LET t == graph.simple_loops[loop_i]
           j == JoinedAfter(joined, graph.paths, t[1], t[2], t[3])
       IN  /\ joined' = j
           /\ IF j = "unbound"
              THEN \* line 386 reads a local that was never assigned
                   /\ pc' = "UnboundLocalError"
                   /\ UNCHANGED <<bridges, loop_i>>
              ELSE /\ pc' = pc
                   /\ loop_i' = loop_i + 1
                   /\ bridges' = IF j = "True" THEN Append(bridges,
                                                  LoopUnrollingBridge(graph, t[1], t[2],
                                                                      t[3], t[4]))
                                 ELSE bridges
    /\ UNCHANGED <<longReadVars, graph, contigVars, callVars, alignVars>>

\* line 392
ReturnLoopBridges ==
    /\ pc = "loops"
    /\ loop_i > Len(graph.simple_loops)
    /\ pc' = "done"
    /\ UNCHANGED <<longReadVars, graph, bridges, contigVars, loopVars, callVars, alignVars>>

LoopNext == UnrollLoop \/ ReturnLoopBridges

SpecLoop == LoopInit /\ [][LoopNext]_vars

----------------------------------------------------------------------------
(* Statements about the bridges the constructors build. *)

RAbs(x) == IF RLt(x, RInt(0)) THEN RNeg(x) ELSE x

RBetween(lo, x, hi) == RLe(lo, x) /\ RLe(x, hi)

\* 0 <= quality <= base, for either class of bridge
QualityWithinBase(b) ==
    IF b.class = "SpadesContigBridge"
    THEN RBetween(RInt(0), b.quality, RInt(ContigBaseQuality))
    ELSE /\ RLe(RInt(0), b.quality.coefficient)
         /\ RLe(RMul(RMul(b.quality.coefficient, b.quality.coefficient),
                     b.quality.penalty_squared),
                RInt(LoopBaseQuality * LoopBaseQuality))

\* C4: a bridge built over segments of positive depth and length has
\* 0 <= quality <= base (20 for a contig bridge, 10 for a loop unrolling
\* bridge), and the closeness factor of a loop unrolling bridge is in [0,1].
C4_QualityWithinBase ==
    pc = "done" =>
        /\ QualityWithinBase(ret)
        /\ ret.class = "LoopUnrollingBridge" =>
               RBetween(RInt(0), ret.closeness_to_whole_num, RInt(1))

\* n copies of the list s
RECURSIVE Times(_, _)
Times(n, s) == IF n = 0 THEN <<>> ELSE s \o Times(n - 1, s)

\* C6: with e the combined loop-count estimate, e < 1 gives loop_count 1 and
\* closeness e; otherwise loop_count is an integer nearest to e and closeness
\* is 1 minus twice the distance from e to it, so 1 at an integer and 0 at a
\* half-integer; graph_path is [repeat] followed by loop_count copies of
\* [middle, repeat], loop_count >= 1 and len(graph_path) = 2*loop_count + 1.
C6_LoopCountAndPath ==
    pc = "done" =>
        LET e == ret.mean_loop_count
            dist == RAbs(RSub(e, RInt(ret.loop_count)))
        IN  /\ RLt(e, RInt(1)) =>
                   ret.loop_count = 1 /\ ret.closeness_to_whole_num = e
            /\ ~RLt(e, RInt(1)) =>
                   /\ RLe(dist, Rat(1, 2))
                   /\ ret.closeness_to_whole_num = RSub(RInt(1), RMul(RInt(2), dist))
                   /\ e[2] = 1 => ret.closeness_to_whole_num = RInt(1)
                   /\ e[2] = 2 => ret.closeness_to_whole_num = RInt(0)
            /\ ret.loop_count >= 1
            /\ Len(ret.graph_path) = 2 * ret.loop_count + 1
            /\ ret.graph_path = <<call.repeat>>
                                \o Times(ret.loop_count, <<call.middle, call.repeat>>)

\* an estimate of exactly 2.5: closeness 0
C6_Witness ==
    /\ pc = "done"
    /\ ret.mean_loop_count = Rat(5, 2)
    /\ ret.closeness_to_whole_num = RInt(0)
    /\ Len(ret.graph_path) = 2 * ret.loop_count + 1

----------------------------------------------------------------------------
(* Statements about create_loop_unrolling_bridges. *)

\* some stored path, or its reverse complement, holds middle together with
\* start, or middle together with end
Corroborated(t, paths) ==
    \E j \in 1..Len(paths) :
        \E p \in {paths[j], Flipped(paths[j])} :
            t[3] \in Range(p) /\ (t[1] \in Range(p) \/ t[2] \in Range(p))

\* C5: the builder never raises, whatever the loops and the stored paths, and
\* it returns one LoopUnrollingBridge for every corroborated loop, in the order
\* of the loops, and nothing for any other loop.
C5_OneBridgePerCorroboratedLoop ==
    /\ pc # "UnboundLocalError"
    /\ pc = "done" =>
          LET corroborated == SelectSeq(graph.simple_loops,
                                        LAMBDA t : Corroborated(t, graph.paths))
          IN  bridges = [i \in 1..Len(corroborated) |->
                            LoopUnrollingBridge(graph, corroborated[i][1], corroborated[i][2],
                                                corroborated[i][3], corroborated[i][4])]

----------------------------------------------------------------------------
(* flip_segment_order, lines 568-586, and the helpers called on their own. *)

\* faulty variant: with one negative number, the magnitudes are compared the wrong way round
flip_segment_order_WrongCompare(seg_num_1, seg_num_2) ==
    LET flip == IF seg_num_1 > 0 /\ seg_num_2 > 0 THEN FALSE
                ELSE IF seg_num_1 < 0 /\ seg_num_2 < 0 THEN TRUE
                ELSE IF seg_num_1 < 0 THEN Abs(seg_num_1) < Abs(seg_num_2)
                ELSE Abs(seg_num_2) < Abs(seg_num_1)
    IN  IF flip THEN <<<<-seg_num_2, -seg_num_1>>, TRUE>>
        ELSE <<<<seg_num_1, seg_num_2>>, FALSE>>

flip_segment_order(seg_num_1, seg_num_2) ==
    LET flip == IF seg_num_1 > 0 /\ seg_num_2 > 0 THEN FALSE
                ELSE IF seg_num_1 < 0 /\ seg_num_2 < 0 THEN TRUE
                ELSE IF seg_num_1 < 0 THEN Abs(seg_num_1) > Abs(seg_num_2)
                ELSE Abs(seg_num_2) > Abs(seg_num_1)
    IN  IF flip THEN <<<<-seg_num_2, -seg_num_1>>, TRUE>>
        ELSE <<<<seg_num_1, seg_num_2>>, FALSE>>

SegNums == {x \in -MaxNum..MaxNum : x # 0}

Numbers == {Rat(n, d) : n \in -MaxNum..MaxNum, d \in 1..MaxDen}

HelperInit ==
    /\ \/ \E a \in SegNums, b \in SegNums :
             call = [fn |-> "flip_segment_order", seg_num_1 |-> a, seg_num_2 |-> b]
       \/ \E a \in Numbers, b \in Numbers :
             call = [fn |-> "get_num_agreement", num_1 |-> a, num_2 |-> b]
    /\ ret = <<>>
    /\ pc = "call"
    /\ graph = <<>>
    /\ bridges = <<>>
    /\ ContigUnused /\ LoopUnused /\ AlignUnused /\ LongReadUnused

CallFlipSegmentOrder ==
    /\ pc = "call"
    /\ call.fn = "flip_segment_order"
    /\ ret' = flip_segment_order(call.seg_num_1, call.seg_num_2)
    /\ pc' = "done"
    /\ UNCHANGED <<longReadVars, graph, bridges, call, contigVars, loopVars, alignVars>>

\* a call that raises leaves the exception's name in pc
CallGetNumAgreement ==
    /\ pc = "call"
    /\ call.fn = "get_num_agreement"
    /\ LET v == get_num_agreement(call.num_1, call.num_2)
       IN  IF v = ZeroDivisionError
           THEN pc' = ZeroDivisionError /\ ret' = ret
           ELSE pc' = "done" /\ ret' = v
    /\ UNCHANGED <<longReadVars, graph, bridges, call, contigVars, loopVars, alignVars>>

HelperNext == CallFlipSegmentOrder \/ CallGetNumAgreement

SpecHelpers == HelperInit /\ [][HelperNext]_vars

\* C7: flip_segment_order(a, b) and flip_segment_order(-b, -a) return the same
\* pair; the pair is (a, b) unflipped or (-b, -a) flipped; flipping the
\* returned pair again changes nothing; two positives are not flipped, two
\* negatives are, and with one negative the pair is flipped exactly when the
\* negative number has the larger magnitude.
C7_FlipCanonical ==
    (pc = "done" /\ call.fn = "flip_segment_order") =>
        LET a == call.seg_num_1
            b == call.seg_num_2
            flipped == ret[2]
        IN  /\ ret[1] = flip_segment_order(-b, -a)[1]
            /\ ret \in {<<<<a, b>>, FALSE>>, <<<<-b, -a>>, TRUE>>}
            /\ flip_segment_order(ret[1][1], ret[1][2]) = <<ret[1], FALSE>>
            /\ (a > 0 /\ b > 0) => ~flipped
            /\ (a < 0 /\ b < 0) => flipped
            /\ (a < 0 /\ b > 0) => (flipped <=> -a > b)
            /\ (a > 0 /\ b < 0) => (flipped <=> -b > a)

\* flip_segment_order(5, -6) = ((6, -5), True)
C7_Witness ==
    /\ pc = "done"
    /\ call = [fn |-> "flip_segment_order", seg_num_1 |-> 5, seg_num_2 |-> -6]
    /\ ret = <<<<6, -5>>, TRUE>>

RSign(x) == IF x[1] > 0 THEN 1 ELSE IF x[1] < 0 THEN -1 ELSE 0

\* C8: get_num_agreement never fails; its value is in [0,1], is the same for
\* (b, a), is 1 exactly when a = b, and is 0 when the two numbers have
\* opposite signs or one of them is negative and the other is not.
C8_AgreementTotal ==
    call # <<>> /\ call.fn = "get_num_agreement" =>
        /\ pc # ZeroDivisionError
        /\ pc = "done" =>
              LET a == call.num_1
                  b == call.num_2
              IN  /\ RBetween(RInt(0), ret, RInt(1))
                  /\ ret = get_num_agreement(b, a)
                  /\ (ret = RInt(1)) <=> (a = b)
                  /\ (RSign(a) * RSign(b) < 0) => ret = RInt(0)
                  /\ ((RSign(a) < 0 /\ RSign(b) >= 0) \/ (RSign(b) < 0 /\ RSign(a) >= 0))
                         => ret = RInt(0)

----------------------------------------------------------------------------
(* get_single_copy_alignments, lines 588-628, and its call, lines 419-423.  *)
(* An alignment is named by its index in read.alignments.                   *)

\* line 419: round(int(1.1 * graph.overlap)); int() drops the fraction of a
\* number that is not negative
AllowedOverlap(overlap) == Round(RInt(RFloor(Rat(11 * overlap, 10))))

\* lines 593-601: the alignments filed under ref_num, in the order of the read
ScAlignments(alignments, ref_num, single_copy_num_set, min_score) ==
    IF ref_num \notin single_copy_num_set THEN <<>>
    ELSE SelectSeq([i \in 1..Len(alignments) |-> i],
                   LAMBDA i : /\ alignments[i].ref_number = ref_num
                              /\ ~(alignments[i].scaled_score < min_score))

\* sorted(..., key=scaled_score, reverse=True): equal scores keep their order
RECURSIVE SortedByScaledScore(_, _)
SortedByScaledScore(alignments, idx) ==
    IF idx = <<>> THEN <<>>
    ELSE LET top == CHOOSE k \in 1..Len(idx) :
                        /\ \A m \in 1..Len(idx) :
                              alignments[idx[m]].scaled_score <= alignments[idx[k]].scaled_score
                        /\ \A m \in 1..(k - 1) :
                              alignments[idx[m]].scaled_score < alignments[idx[k]].scaled_score
         IN  <<idx[top]>>
             \o SortedByScaledScore(alignments,
                                    SubSeq(idx, 1, top - 1) \o SubSeq(idx, top + 1, Len(idx)))

\* lines 620-627: is the second best alignment kept beside the best one
KeepsSecond(best_alignment, second_best_alignment, allowed) ==
    LET combined_len == best_alignment.aligned_ref_length
                        + second_best_alignment.aligned_ref_length
    IN  /\ combined_len <= best_alignment.ref_length + allowed
        /\ \/ (best_alignment.ref_start_pos > 0 /\ second_best_alignment.ref_end_gap > 0)
           \/ (best_alignment.ref_end_gap > 0 /\ second_best_alignment.ref_start_pos > 0)

\* lines 611-627 for the alignments filed under one reference
KeptOfGroup(alignments, idx, allowed) ==
    LET sorted == SortedByScaledScore(alignments, idx)
    IN  IF Len(sorted) > 1 /\ KeepsSecond(alignments[sorted[1]], alignments[sorted[2]], allowed)
        THEN <<sorted[1], sorted[2]>>
        ELSE <<sorted[1]>>

\* ref_order is the order in which sc_alignments.itervalues() yields the groups
get_single_copy_alignments(alignments, ref_order, single_copy_num_set, allowed, min_score) ==
    Concat([k \in 1..Len(ref_order) |->
               KeptOfGroup(alignments,
                           ScAlignments(alignments, ref_order[k], single_copy_num_set,
                                        min_score),
                           allowed)])

\* the reference numbers that are keys of sc_alignments
ScKeys(alignments, single_copy_num_set, min_score) ==
    {r \in 1..MaxRef : ScAlignments(alignments, r, single_copy_num_set, min_score) # <<>>}

Orders(S) == {o \in [1..Cardinality(S) -> S] : \A i, j \in 1..Cardinality(S) :
                                                   i # j => o[i] # o[j]}

\* an alignment covers its reference but for the unaligned bases at its ends
Alignments ==
    {[ref_number |-> r, ref_length |-> RefLength, scaled_score |-> sc,
      ref_start_pos |-> st, ref_end_gap |-> gap,
      aligned_ref_length |-> RefLength - st - gap]
     : r \in 1..MaxRef, sc \in 1..MaxScore, st \in 0..MaxGap, gap \in 0..MaxGap}

AlignInit ==
    /\ \E o \in 0..MaxOverlap : graph = [overlap |-> o]
    /\ \E n \in 0..MaxAlignments : \E as \in [1..n -> Alignments] : read = [alignments |-> as]
    /\ \E n \in 0..MaxRef : single_copy_segments = [i \in 1..n |-> i]
    /\ min_scaled_score \in 1..MaxScore
    /\ allowed_overlap = 0
    /\ final_alignments = <<>>
    /\ pc = "start"
    /\ bridges = <<>>
    /\ seg_i = 0 /\ bridge_path_set = {} /\ found = {}
    /\ bridge_path_list = <<>> /\ conflicting_paths = {}
    /\ LoopUnused /\ CallUnused /\ LongReadUnused

\* line 419
ComputeAllowedOverlap ==
    /\ pc = "start"
    /\ allowed_overlap' = AllowedOverlap(graph.overlap)
    /\ pc' = "read"
    /\ UNCHANGED <<longReadVars, graph, bridges, contigVars, loopVars, callVars, read, min_scaled_score,
                   final_alignments>>

\* lines 421-423
SelectAlignments ==
    /\ pc = "read"
    /\ \E ref_order \in Orders(ScKeys(read.alignments, Range(single_copy_segments),
                                      min_scaled_score)) :
          final_alignments' =
              get_single_copy_alignments(read.alignments, ref_order,
                                         Range(single_copy_segments), allowed_overlap,
                                         min_scaled_score)
    /\ pc' = "done"
    /\ UNCHANGED <<longReadVars, graph, bridges, contigVars, loopVars, callVars, read, min_scaled_score,
                   allowed_overlap>>

AlignNext == ComputeAllowedOverlap \/ SelectAlignments

SpecAlign == AlignInit /\ [][AlignNext]_vars

\* round(1.1 * overlap), halves up: 6 for an overlap of 5
RoundedAllowedOverlap(overlap) == Round(Rat(11 * overlap, 10))

\* the alignments of the read to reference r that pass the filter
Passing(r) ==
    {i \in 1..Len(read.alignments) :
        /\ read.alignments[i].ref_number = r
        /\ r \in Range(single_copy_segments)
        /\ read.alignments[i].scaled_score >= min_scaled_score}

TopScored(S) ==
    {i \in S : \A k \in S : read.alignments[k].scaled_score <= read.alignments[i].scaled_score}

\* what C10 says of the retained set, for a given allowed overlap
RetainedAsStated(allowed) ==
    LET retained == Range(final_alignments)
    IN  /\ retained \subseteq UNION {Passing(r) : r \in 1..MaxRef}
        /\ \A r \in 1..MaxRef :
              Passing(r) # {} =>
                  \E best \in TopScored(Passing(r)) :
                      /\ best \in retained
                      /\ IF Passing(r) = {best}
                         THEN retained \cap Passing(r) = {best}
                         ELSE \E second \in TopScored(Passing(r) \ {best}) :
                                 /\ retained \cap Passing(r) \subseteq {best, second}
                                 /\ second \in retained <=>
                                        KeepsSecond(read.alignments[best],
                                                    read.alignments[second], allowed)

\* C10: the retained alignments are alignments to single-copy references with
\* scaled_score >= threshold, the best of every such reference among them, and
\* beside it at most the second best, kept exactly when the two aligned
\* lengths sum to at most segment_length + round(1.1 * graph.overlap) and the
\* two cover opposite ends.
C10_SelectionAsStated ==
    pc = "done" => RetainedAsStated(RoundedAllowedOverlap(graph.overlap))

----------------------------------------------------------------------------
(* create_long_read_bridges, lines 394-519.  An alignment is named by its   *)
(* index in read.alignments; a dictionary is a function on its keys.        *)

\* misc.reverse_complement: the complement of every base, in reverse order
Complement(base) ==
    CASE base = "A" -> "T" [] base = "T" -> "A" [] base = "C" -> "G" [] base = "G" -> "C"
      [] OTHER -> "N"

reverse_complement(seq) == [i \in 1..Len(seq) |-> Complement(seq[Len(seq) + 1 - i])]

\* d[k].append(v), after d[k] = [] when k is not yet a key
DictAppend(d, k, v) ==
    [x \in (DOMAIN d) \cup {k} |->
        IF x = k THEN (IF k \in DOMAIN d THEN Append(d[k], v) ELSE <<v>>) ELSE d[x]]

\* line 442: sorted(alignments, key=raw_score, reverse=True), equal scores keep their order
RECURSIVE SortedByRawScore(_, _)
SortedByRawScore(alignments, idx) ==
    IF idx = <<>> THEN <<>>
    ELSE LET top == CHOOSE k \in 1..Len(idx) :
                        /\ \A m \in 1..Len(idx) :
                              alignments[idx[m]].raw_score <= alignments[idx[k]].raw_score
                        /\ \A m \in 1..(k - 1) :
                              alignments[idx[m]].raw_score < alignments[idx[k]].raw_score
         IN  <<idx[top]>>
             \o SortedByRawScore(alignments,
                                 SubSeq(idx, 1, top - 1) \o SubSeq(idx, top + 1, Len(idx)))

\* lines 445-447: append, then the stable sort by read_start_positive_strand
\* of a list that was sorted before the append
InsertByStart(alignments, available, alignment) ==
    LET n == Cardinality({k \in 1..Len(available) :
                 alignments[available[k]].read_start_positive_strand
                     <= alignments[alignment].read_start_positive_strand})
    IN  SubSeq(available, 1, n) \o <<alignment>> \o SubSeq(available, n + 1, Len(available))

\* lines 458-466: a str, or an int that is 0 or negative
BridgeSeq(sequence, alignment_1, alignment_2, flipped) ==
    LET bridge_start == alignment_1.read_end_positive_strand
        bridge_end == alignment_2.read_start_positive_strand
        bridge_seq == SubSeq(sequence, bridge_start + 1, bridge_end)
    IN  IF bridge_end > bridge_start
        THEN [type |-> "str", str |-> IF flipped THEN reverse_complement(bridge_seq)
                                                 ELSE bridge_seq,
              int |-> 0]
        ELSE [type |-> "int", str |-> <<>>, int |-> bridge_end - bridge_start]

\* faulty variant: the pair is appended although this read has added it before
AddPair_NoFirstOccurrence(st, name, rd, i) ==
    LET alignment_1 == rd.alignments[st.available_alignments[i]]
        alignment_2 == rd.alignments[st.available_alignments[i + 1]]
        fso == flip_segment_order(alignment_1.signed_ref_num, alignment_2.signed_ref_num)
    IN  [st EXCEPT
            !.spanning_read_seqs =
                DictAppend(@, fso[1],
                           [bridge_seq |-> BridgeSeq(rd.sequence, alignment_1,
                                                     alignment_2, fso[2]),
                            read |-> name,
                            alignment_1 |-> st.available_alignments[i],
                            alignment_2 |-> st.available_alignments[i + 1]]),
            !.already_added = @ \cup {fso[1]}]

\* lines 449-472 for one i; st holds spanning_read_seqs, already_added and
\* available_alignments, name is the index of the read
AddPair(st, name, rd, i) ==
    LET alignment_1 == rd.alignments[st.available_alignments[i]]
        alignment_2 == rd.alignments[st.available_alignments[i + 1]]
        fso == flip_segment_order(alignment_1.signed_ref_num, alignment_2.signed_ref_num)
        seg_nums == fso[1]
        flipped == fso[2]
    IN  IF seg_nums \in st.already_added THEN st
        ELSE [st EXCEPT
                 !.spanning_read_seqs =
                     DictAppend(@, seg_nums,
                                [bridge_seq |-> BridgeSeq(rd.sequence, alignment_1,
                                                          alignment_2, flipped),
                                 read |-> name,
                                 alignment_1 |-> st.available_alignments[i],
                                 alignment_2 |-> st.available_alignments[i + 1]]),
                 !.already_added = @ \cup {seg_nums}]

\* lines 448-472
RECURSIVE AddPairs(_, _, _, _)
AddPairs(st, name, rd, i) ==
    IF i > Len(st.available_alignments) - 1 THEN st
    ELSE AddPairs(AddPair(st, name, rd, i), name, rd, i + 1)

\* lines 444-472
RECURSIVE AddAlignments(_, _, _, _, _)
AddAlignments(st, name, rd, sorted_alignments, k) ==
    IF k > Len(sorted_alignments) THEN st
    ELSE AddAlignments(
             AddPairs([st EXCEPT !.available_alignments =
                                     InsertByStart(rd.alignments, @, sorted_alignments[k])],
                      name, rd, 1),
             name, rd, sorted_alignments, k + 1)

\* lines 479-497; alignment is what the loop of line 444 left in its variable
AddOverlaps(overlapping, rd, available, alignment) ==
    LET first_alignment == rd.alignments[available[1]]
        start_overlap == first_alignment.start_overlapping_read_seq
        with_start == IF start_overlap # <<>>
                      THEN DictAppend(overlapping, -alignment.signed_ref_num,
                                      reverse_complement(start_overlap))
                      ELSE overlapping
        last_alignment == rd.alignments[available[Len(available)]]
        end_overlap == last_alignment.end_overlapping_read_seq
    IN  IF end_overlap # <<>>
        THEN DictAppend(with_start, alignment.signed_ref_num, end_overlap)
        ELSE with_start

\* the bases of every read: one base, then the same other base throughout
ReadSequence == [i \in 1..(MaxReadPos + 2) |-> IF i = 1 THEN "A" ELSE "C"]

HalfRef == RefLength \div 2

\* An alignment covers one base of the read, at the start of the read or at
\* MaxReadPos, and half of its reference: the first half on the forward
\* strand, the second half on the reverse strand.  The read bases before and
\* after it are its overlapping sequences.
LongReadAlignments ==
    {[ref_number |-> Abs(num), signed_ref_num |-> num, ref_length |-> RefLength,
      raw_score |-> sc, scaled_score |-> sc,
      read_start_positive_strand |-> pos, read_end_positive_strand |-> pos + 1,
      ref_start_pos |-> IF num > 0 THEN 0 ELSE HalfRef,
      ref_end_gap |-> IF num > 0 THEN HalfRef ELSE 0,
      aligned_ref_length |-> RefLength - HalfRef,
      start_overlapping_read_seq |-> SubSeq(ReadSequence, 1, pos),
      end_overlapping_read_seq |-> SubSeq(ReadSequence, pos + 2, Len(ReadSequence))]
     : num \in {x \in -MaxRef..MaxRef : x # 0}, sc \in 1..MaxScore, pos \in {0, MaxReadPos}}

ReadsUpTo(n) ==
    {[sequence |-> ReadSequence, alignments |-> as]
     : as \in UNION {[1..k -> LongReadAlignments] : k \in 0..n}}

\* the more reads, the fewer alignments each of them has
ReadLists == UNION {[1..n -> ReadsUpTo(MaxAlignments + 1 - n)] : n \in 0..MaxReads}

LongReadInit ==
    /\ graph = [overlap |-> MaxOverlap]
    /\ single_copy_segments = [i \in 1..MaxRef |-> i]
    /\ min_scaled_score \in 1..MaxScore
    /\ read_names \in ReadLists
    /\ read_i = 1
    /\ spanning_read_seqs = <<>>
    /\ overlapping_read_seqs = <<>>
    /\ available_alignments = <<>>
    /\ read = <<>>
    /\ allowed_overlap = 0
    /\ final_alignments = <<>>
    /\ pc = "start"
    /\ bridges = <<>>
    /\ seg_i = 0 /\ bridge_path_set = {} /\ found = {}
    /\ bridge_path_list = <<>> /\ conflicting_paths = {}
    /\ LoopUnused /\ CallUnused

\* lines 421-497: one read
ProcessRead ==
    /\ pc = "read"
    /\ read_i <= Len(read_names)
    /\ LET rd == read_names[read_i]
       IN  \E ref_order \in Orders(ScKeys(rd.alignments, Range(single_copy_segments),
                                          min_scaled_score)) :
              LET alignments ==
                      get_single_copy_alignments(rd.alignments, ref_order,
                                                 Range(single_copy_segments),
                                                 allowed_overlap, min_scaled_score)
                  sorted_alignments == SortedByRawScore(rd.alignments, alignments)
                  st == AddAlignments([spanning_read_seqs |-> spanning_read_seqs,
                                       already_added |-> {},
                                       available_alignments |-> <<>>],
                                      read_i, rd, sorted_alignments, 1)
              IN  /\ read' = rd
                  /\ final_alignments' = alignments
                  /\ IF alignments = <<>>
                     THEN /\ UNCHANGED <<spanning_read_seqs, overlapping_read_seqs>>
                          /\ available_alignments' = Append(available_alignments, <<>>)
                     ELSE /\ spanning_read_seqs' = st.spanning_read_seqs
                          /\ overlapping_read_seqs' =
                                 AddOverlaps(overlapping_read_seqs, rd,
                                             st.available_alignments,
                                             rd.alignments[sorted_alignments[
                                                               Len(sorted_alignments)]])
                          /\ available_alignments' =
                                 Append(available_alignments, st.available_alignments)
    /\ read_i' = read_i + 1
    /\ UNCHANGED <<graph, pc, bridges, contigVars, loopVars, callVars, min_scaled_score,
                   allowed_overlap, read_names>>

\* line 519
ReturnLongReadBridges ==
    /\ pc = "read"
    /\ read_i > Len(read_names)
    /\ pc' = "done"
    /\ bridges' = <<>>
    /\ UNCHANGED <<graph, contigVars, loopVars, callVars, alignVars, longReadVars>>

LongReadNext == ComputeAllowedOverlap \/ ProcessRead \/ ReturnLongReadBridges

SpecLongRead == LongReadInit /\ [][LongReadNext]_vars

----------------------------------------------------------------------------
(* Overlap evidence and spanning evidence of the long reads. *)

\* the overlap dictionary after the first n reads when every key is taken
\* from the first and the last alignment of the read's working list
RECURSIVE OverlapsByFirstAndLast(_)
OverlapsByFirstAndLast(n) ==
    IF n = 0 THEN <<>>
    ELSE LET before == OverlapsByFirstAndLast(n - 1)
             working == available_alignments[n]
         IN  IF working = <<>> THEN before
             ELSE LET first == read_names[n].alignments[working[1]]
                      last == read_names[n].alignments[working[Len(working)]]
                      with_start ==
                          IF first.start_overlapping_read_seq # <<>>
                          THEN DictAppend(before, -first.signed_ref_num,
                                          reverse_complement(
                                              first.start_overlapping_read_seq))
                          ELSE before
                  IN  IF last.end_overlapping_read_seq # <<>>
                      THEN DictAppend(with_start, last.signed_ref_num,
                                      last.end_overlapping_read_seq)
                      ELSE with_start

\* C11: the read bases before the first alignment of a read's working list
\* are recorded under the negated signed reference number of that first
\* alignment, the bases past the last alignment under the signed reference
\* number of that last alignment, and under no other key.
C11_OverlapKeyedByFirstAndLast ==
    overlapping_read_seqs = OverlapsByFirstAndLast(Len(available_alignments))

\* the entries that read r has appended under key k
EntriesOf(k, r) ==
    {i \in 1..Len(spanning_read_seqs[k]) : spanning_read_seqs[k][i].read = r}

CanonicalPair(rd, a, b) ==
    flip_segment_order(rd.alignments[a].signed_ref_num, rd.alignments[b].signed_ref_num)

AtMostOnePerRead ==
    \A k \in DOMAIN spanning_read_seqs : \A r \in 1..Len(read_names) :
        Cardinality(EntriesOf(k, r)) <= 1

\* every working list is sorted by read position, and each of its adjacent
\* pairs is a key under which the read has an entry
AdjacentPairsAreKeys ==
    \A r \in 1..Len(available_alignments) :
        LET working == available_alignments[r]
            rd == read_names[r]
        IN  \A i \in 1..(Len(working) - 1) :
               /\ rd.alignments[working[i]].read_start_positive_strand
                      <= rd.alignments[working[i + 1]].read_start_positive_strand
               /\ LET k == CanonicalPair(rd, working[i], working[i + 1])[1]
                  IN  k \in DOMAIN spanning_read_seqs /\ EntriesOf(k, r) # {}

KeysAreCanonical ==
    \A k \in DOMAIN spanning_read_seqs :
        /\ flip_segment_order(k[1], k[2]) = <<k, FALSE>>
        /\ (<<-k[2], -k[1]>> # k => <<-k[2], -k[1]>> \notin DOMAIN spanning_read_seqs)

\* what entry e, filed under k, holds; reversed says whether a flipped pair
\* holds the reverse complement of the substring
EntryHolds(k, e, reversed) ==
    LET rd == read_names[e.read]
        alignment_1 == rd.alignments[e.alignment_1]
        alignment_2 == rd.alignments[e.alignment_2]
        gap == alignment_2.read_start_positive_strand - alignment_1.read_end_positive_strand
        substring == SubSeq(rd.sequence, alignment_1.read_end_positive_strand + 1,
                            alignment_2.read_start_positive_strand)
        fso == CanonicalPair(rd, e.alignment_1, e.alignment_2)
    IN  /\ k = fso[1]
        /\ IF gap > 0
           THEN /\ e.bridge_seq.type = "str"
                /\ e.bridge_seq.str = IF reversed /\ fso[2]
                                      THEN reverse_complement(substring)
                                      ELSE substring
           ELSE /\ e.bridge_seq.type = "int"
                /\ e.bridge_seq.int = gap

EntriesHold(reversed) ==
    \A k \in DOMAIN spanning_read_seqs : \A i \in 1..Len(spanning_read_seqs[k]) :
        EntryHolds(k, spanning_read_seqs[k][i], reversed)

\* C12, as stated: after any sequence of reads, each read has appended at
\* most one entry under any canonical pair, every adjacent pair of a read's
\* final working list is a key, every key is a pair flip_segment_order
\* returns, and an entry holds the read substring between the two alignments
\* when the gap is positive, otherwise the zero or negative gap length.
C12_SpanningAsStated ==
    AtMostOnePerRead /\ AdjacentPairsAreKeys /\ KeysAreCanonical /\ EntriesHold(FALSE)

\* C12, amended: as above, but an entry whose pair flip_segment_order flipped
\* holds the reverse complement of the read substring.
C12_SpanningAccumulation ==
    AtMostOnePerRead /\ AdjacentPairsAreKeys /\ KeysAreCanonical /\ EntriesHold(TRUE)

\* two reads have each appended an entry under one key, and some entry of a
\* flipped pair holds a sequence
C12_Witness ==
    /\ pc = "done"
    /\ \E k \in DOMAIN spanning_read_seqs :
          EntriesOf(k, 1) # {} /\ EntriesOf(k, 2) # {}
    /\ \E k \in DOMAIN spanning_read_seqs : \E i \in 1..Len(spanning_read_seqs[k]) :
          LET e == spanning_read_seqs[k][i]
          IN  /\ e.bridge_seq.type = "str"
              /\ CanonicalPair(read_names[e.read], e.alignment_1, e.alignment_2)[2]

----------------------------------------------------------------------------
(* find_contig_bridges called as line 280 calls it: segment_num is one of   *)
(* the single-copy numbers.                                                 *)

\* the paths of at most MaxPathElems signed segment numbers
FindPaths == UNION {[1..n -> SignedNums] : n \in 0..MaxPathElems}

FindInit ==
    /\ \E path \in FindPaths : \E single_copy_numbers \in SingleCopyLists :
          \E k \in 1..Len(single_copy_numbers) :
             call = [fn |-> "find_contig_bridges", segment_num |-> single_copy_numbers[k],
                     path |-> path, single_copy_numbers |-> single_copy_numbers]
    /\ ret = <<>>
    /\ pc = "call"
    /\ graph = <<>>
    /\ bridges = <<>>
    /\ ContigUnused /\ LoopUnused /\ AlignUnused /\ LongReadUnused

CallFindContigBridges ==
    /\ pc = "call"
    /\ call.fn = "find_contig_bridges"
    /\ ret' = find_contig_bridges(call.segment_num, call.path, call.single_copy_numbers)
    /\ pc' = "done"
    /\ UNCHANGED <<longReadVars, graph, bridges, call, contigVars, loopVars, alignVars>>

FindNext == CallFindContigBridges

SpecFind == FindInit /\ [][FindNext]_vars

IsSingleCopy(x) == Abs(x) \in Range(call.single_copy_numbers)

\* the positions of segment_num that some single-copy element follows
AnchoredPositions ==
    {i \in 1..Len(call.path) :
        /\ Abs(call.path[i]) = call.segment_num
        /\ \E j \in (i + 1)..Len(call.path) : IsSingleCopy(call.path[j])}

\* the k-th of them, counted from the start of the path
AnchoredPosition(k) ==
    CHOOSE i \in AnchoredPositions : Cardinality({p \in AnchoredPositions : p < i}) = k - 1

\* C13: find_contig_bridges returns one candidate for each position of
\* segment_num that a single-copy element follows and none for any other
\* position; the candidate is the run from that position to the first later
\* single-copy element, so it has at least two elements, its first and last
\* elements are single-copy and no element between them is.
C13_CandidateExtraction ==
    (pc = "done" /\ call.fn = "find_contig_bridges") =>
        /\ Len(ret) = Cardinality(AnchoredPositions)
        /\ \A k \in 1..Len(ret) :
              LET i == AnchoredPosition(k)
                  c == ret[k]
              IN  /\ Len(c) >= 2
                  /\ i + Len(c) - 1 <= Len(call.path)
                  /\ c = SubSeq(call.path, i, i + Len(c) - 1)
                  /\ IsSingleCopy(c[1])
                  /\ IsSingleCopy(c[Len(c)])
                  /\ \A m \in 2..(Len(c) - 1) : ~IsSingleCopy(c[m])

\* two candidates are returned, one of them ending on a negated single-copy
\* number, and a last position of segment_num has no anchor after it
C13_Witness ==
    /\ pc = "done"
    /\ call.fn = "find_contig_bridges"
    /\ Len(ret) = 2
    /\ \E k \in 1..2 : ret[k][Len(ret[k])] < 0
    /\ \E i \in 1..Len(call.path) :
          Abs(call.path[i]) = call.segment_num /\ i \notin AnchoredPositions

----------------------------------------------------------------------------
(* The list create_spades_contig_bridges returns. *)

\* C14: any two distinct bridges of the returned list differ in their start
\* segment and in their end segment, and the start segment of one is not the
\* negated end segment of the other.
C14_OneBridgePerSegmentEnd ==
    pc = "done" =>
        \A i, j \in 1..Len(bridges) :
            i # j => /\ bridges[i].start_segment # bridges[j].start_segment
                     /\ bridges[i].end_segment # bridges[j].end_segment
                     /\ bridges[i].start_segment # -bridges[j].end_segment

\* two bridges are returned, the second leaving the segment the first enters
C14_Witness ==
    /\ pc = "done"
    /\ Len(bridges) = 2
    /\ bridges[1].end_segment = bridges[2].start_segment

====
